---- MODULE Spec2Model ----
(***************************************************************************)
(* Model of the circuit breaker of shirokovnv/circuit_breaker             *)
(* (package circuit_breaker: State, Counts, CircuitBreaker, Execute).      *)
(*                                                                         *)
(* Execute holds cb.mu from its first statement to its return, so one     *)
(* call is split only where other goroutines or the clock can interleave: *)
(*   Enter(p)          p calls Execute: Lock (which waits until cb.mu is   *)
(*                     free), deadline check, admission check, onRequest,  *)
(*                     up to the start of req(); a rejected call returns   *)
(*                     (and unlocks) in this same step                     *)
(*   Return(p, r, e)   req() returns (r, e); onSuccess/onFailure; unlock   *)
(*   Panic(p)          req() panics; the deferred Unlock runs              *)
(*   Tick(d)           the clock read by time.Now() advances               *)
(***************************************************************************)
EXTENDS Integers, Sequences, FiniteSets, TLC

\* ---------------------------------------------------------------- bounds
NumCallers == 2
MaxThreshold == 2
MaxRequests == 12
MaxCustomRequests == 4
MaxSuccesses == 1
MaxPanics == 1
MaxUnitTicks == 1
MaxPeriodTicks == 1

\* ------------------------------------------------------------- constants
StateClosed == 0
StateOpen == 1
StateHalfOpen == 2

defaultConsecutiveFailures == 5
defaultTimeout == 60

ErrTooManyRequests == "too many requests"
ErrOpenState == "circuit breaker is open"

\* Go's nil (nil error, nil interface{} result, nil func field)
Nil == "nil"
\* time.Time{}: the zero time, before every reading of the clock
ZeroTime == 0

Callers == 1..NumCallers
NoOne == 0

\* what an action may return: (result, error), any combination
Results == {Nil, "msg"}
ActionErrors == {Nil, "service error"}

VARIABLES
    cfg,        \* Config as stored by NewCircuitBreaker (immutable)
    state,      \* cb.state
    counts,     \* cb.counts
    expiredAt,  \* cb.expiredAt
    now,        \* the clock read by time.Now()
    mu,         \* holder of cb.mu, NoOne when unlocked
    pc,         \* per caller: "idle", or "running" (inside req(), lock held)
    ev,         \* the latest step: what was done, what req() and Execute
                \* returned, which hooks were invoked
    panics,     \* admitted actions that panicked since the last counts.reset
    probes      \* req() invocations during the current stay in HalfOpen

vars == <<cfg, state, counts, expiredAt, now, mu, pc, ev, panics, probes>>

\* ---------------------------------------------------------------- Counts
\* The five fields are uint32. Admission is capped at MaxRequests calls per
\* counting period, far below 2^32, so no increment of the model wraps.
ZeroCounts ==
    [Requests |-> 0, TotalSuccesses |-> 0, TotalFailures |-> 0,
     ConsecutiveSuccesses |-> 0, ConsecutiveFailures |-> 0]

Counts_onRequest(c) ==
    [c EXCEPT !.Requests = @ + 1]

\* a success count that forgets the streak
Counts_onSuccess_noStreak(c) ==
    [c EXCEPT !.TotalSuccesses = @ + 1,
              !.ConsecutiveFailures = 0]

Counts_onSuccess(c) ==
    [c EXCEPT !.TotalSuccesses = @ + 1,
              !.ConsecutiveSuccesses = @ + 1,
              !.ConsecutiveFailures = 0]

Counts_onFailure(c) ==
    [c EXCEPT !.TotalFailures = @ + 1,
              !.ConsecutiveFailures = @ + 1,
              !.ConsecutiveSuccesses = 0]
\* a reset that leaves the request count standing
Counts_reset_keepsRequests(c) ==
    [c EXCEPT !.TotalSuccesses = 0, !.TotalFailures = 0,
              !.ConsecutiveSuccesses = 0, !.ConsecutiveFailures = 0]

Counts_reset(c) ==
    [c EXCEPT !.Requests = 0, !.TotalSuccesses = 0, !.TotalFailures = 0,
              !.ConsecutiveSuccesses = 0, !.ConsecutiveFailures = 0]

\* -------------------------------------------------------- CircuitBreaker
\* The mutable part of a CircuitBreaker as one value, with the calls made
\* to the two hooks while an operation runs:
\*   obs  - onStateChange invocations: arguments and what cb held then
\*   trip - readyToTrip invocations: argument and returned value
Breaker(st, c, exp) ==
    [state |-> st, counts |-> c, expiredAt |-> exp, obs |-> <<>>, trip |-> <<>>]

NewCircuitBreaker(config) ==
    [Name |-> config.Name,
     RequestThreshold |-> config.RequestThreshold,
     Timeout |-> IF config.Timeout = 0 THEN defaultTimeout ELSE config.Timeout,
     ReadyToTrip |-> IF config.ReadyToTrip = Nil THEN "defaultReadyToTrip"
                     ELSE config.ReadyToTrip,
     OnStateChange |-> config.OnStateChange]
\* a default policy that trips already at the fifth consecutive failure
defaultReadyToTrip_atFive(c) ==
    c.ConsecutiveFailures >= defaultConsecutiveFailures

defaultReadyToTrip(c) ==
    c.ConsecutiveFailures > defaultConsecutiveFailures

\* cb.readyToTrip(cb.counts): the default, or the caller's predicate, whose
\* answer is the oracle (an opaque function of its argument and of whatever
\* else the caller's closure reads)
readyToTrip(c, oracle) ==
    IF cfg.ReadyToTrip = "defaultReadyToTrip" THEN defaultReadyToTrip(c)
    ELSE oracle

\* a transition that forgets to reset the counts
setState_noReset(cb, st) ==
    IF cb.state = st THEN cb
    ELSE LET prev == cb.state
             cb1 == [cb EXCEPT !.state = st]
         IN  IF cfg.OnStateChange # Nil
             THEN [cb1 EXCEPT !.obs = Append(@,
                       [name |-> cfg.Name, from |-> prev, to |-> st,
                        seenState |-> cb1.state,
                        seenCounts |-> cb1.counts])]
             ELSE cb1

\* a transition that tells the observer before it commits the new state
setState_notifiesFirst(cb, st) ==
    IF cb.state = st THEN cb
    ELSE LET prev == cb.state
             cb1 == IF cfg.OnStateChange # Nil
                    THEN [cb EXCEPT !.obs = Append(@,
                              [name |-> cfg.Name, from |-> prev, to |-> st,
                               seenState |-> cb.state,
                               seenCounts |-> cb.counts])]
                    ELSE cb
         IN  [cb1 EXCEPT !.state = st, !.counts = Counts_reset(@)]

\* a transition that resets the counts before it tells the observer
setState_resetsFirst(cb, st) ==
    IF cb.state = st THEN cb
    ELSE LET prev == cb.state
             cb1 == [cb EXCEPT !.state = st, !.counts = Counts_reset(@)]
         IN  IF cfg.OnStateChange # Nil
             THEN [cb1 EXCEPT !.obs = Append(@,
                       [name |-> cfg.Name, from |-> prev, to |-> st,
                        seenState |-> cb1.state,
                        seenCounts |-> cb1.counts])]
             ELSE cb1

setState(cb, st) ==
    IF cb.state = st THEN cb
    ELSE LET prev == cb.state
             cb1 == [cb EXCEPT !.state = st]
             cb2 == IF cfg.OnStateChange # Nil
                    THEN [cb1 EXCEPT !.obs = Append(@,
                              [name |-> cfg.Name, from |-> prev, to |-> st,
                               seenState |-> cb1.state,
                               seenCounts |-> cb1.counts])]
                    ELSE cb1
         IN  [cb2 EXCEPT !.counts = Counts_reset(@)]
\* an outcome update that asks for one success more than the threshold
onSuccess_oneMore(cb, st) ==
    IF st = StateClosed
    THEN [cb EXCEPT !.counts = Counts_onSuccess(@)]
    ELSE IF st = StateHalfOpen
    THEN LET cb1 == [cb EXCEPT !.counts = Counts_onSuccess(@)]
         IN  IF cb1.counts.ConsecutiveSuccesses > cfg.RequestThreshold
             THEN setState(cb1, StateClosed)
             ELSE cb1
    ELSE cb

onSuccess(cb, st) ==
    IF st = StateClosed
    THEN [cb EXCEPT !.counts = Counts_onSuccess(@)]
    ELSE IF st = StateHalfOpen
    THEN LET cb1 == [cb EXCEPT !.counts = Counts_onSuccess(@)]
         IN  IF cb1.counts.ConsecutiveSuccesses >= cfg.RequestThreshold
             THEN setState(cb1, StateClosed)
             ELSE cb1
    ELSE cb
\* an outcome update that lets the predicate decide in HalfOpen too
onFailure_asksInHalfOpen(cb, st, t, oracle) ==
    LET cb1 == IF st = StateClosed
               THEN [cb EXCEPT !.counts = Counts_onFailure(@)]
               ELSE cb
        trips == readyToTrip(cb1.counts, oracle)
        cb2 == [cb1 EXCEPT !.trip = Append(@,
                    [arg |-> cb1.counts, ret |-> trips])]
    IN  IF trips
        THEN setState([cb2 EXCEPT !.expiredAt = t + cfg.Timeout], StateOpen)
        ELSE cb2

\* an outcome update that asks the predicate before recording the failure
onFailure_tripsBeforeRecording(cb, st, t, oracle) ==
    IF st = StateClosed
    THEN LET trips == readyToTrip(cb.counts, oracle)
             cb1 == [cb EXCEPT !.counts = Counts_onFailure(@),
                               !.trip = Append(@,
                                   [arg |-> cb.counts, ret |-> trips])]
         IN  IF trips
             THEN setState([cb1 EXCEPT !.expiredAt = t + cfg.Timeout], StateOpen)
             ELSE cb1
    ELSE IF st = StateHalfOpen
    THEN setState([cb EXCEPT !.expiredAt = t + cfg.Timeout], StateOpen)
    ELSE cb

onFailure(cb, st, t, oracle) ==
    IF st = StateClosed
    THEN LET cb1 == [cb EXCEPT !.counts = Counts_onFailure(@)]
             trips == readyToTrip(cb1.counts, oracle)
             cb2 == [cb1 EXCEPT !.trip = Append(@,
                         [arg |-> cb1.counts, ret |-> trips])]
         IN  IF trips
             THEN setState([cb2 EXCEPT !.expiredAt = t + cfg.Timeout], StateOpen)
             ELSE cb2
    ELSE IF st = StateHalfOpen
    THEN setState([cb EXCEPT !.expiredAt = t + cfg.Timeout], StateOpen)
    ELSE cb
\* a deadline check that forgets the clock
DeadlineCheck_ignoresClock(cb, t) ==
    IF cb.state = StateOpen
    THEN setState([cb EXCEPT !.expiredAt = ZeroTime], StateHalfOpen)
    ELSE cb

\* a deadline check that lets the call through at the deadline itself
DeadlineCheck_atDeadline(cb, t) ==
    IF cb.state = StateOpen /\ cb.expiredAt <= t
    THEN setState([cb EXCEPT !.expiredAt = ZeroTime], StateHalfOpen)
    ELSE cb

\* a deadline check that leaves the old deadline in place
DeadlineCheck_keepsDeadline(cb, t) ==
    IF cb.state = StateOpen /\ cb.expiredAt < t
    THEN setState(cb, StateHalfOpen)
    ELSE cb

\* a deadline check that reopens the traffic without probing
DeadlineCheck_skipsProbing(cb, t) ==
    IF cb.state = StateOpen /\ cb.expiredAt < t
    THEN setState([cb EXCEPT !.expiredAt = ZeroTime], StateClosed)
    ELSE cb

\* Execute, lines 134-137: the lazy Open -> HalfOpen transition
DeadlineCheck(cb, t) ==
    IF cb.state = StateOpen /\ cb.expiredAt < t
    THEN setState([cb EXCEPT !.expiredAt = ZeroTime], StateHalfOpen)
    ELSE cb
\* an admission check that lets one probe too many through
Admission_oneMore(cb) ==
    IF cb.state = StateOpen THEN ErrOpenState
    ELSE IF cb.state = StateHalfOpen
            /\ cb.counts.Requests > cfg.RequestThreshold
    THEN ErrTooManyRequests
    ELSE Nil

\* an admission check that caps the probes only for a positive threshold
Admission_zeroMeansNoCap(cb) ==
    IF cb.state = StateOpen THEN ErrOpenState
    ELSE IF cb.state = StateHalfOpen
            /\ cfg.RequestThreshold > 0
            /\ cb.counts.Requests >= cfg.RequestThreshold
    THEN ErrTooManyRequests
    ELSE Nil

\* Execute, lines 139-143: the error of a rejected call, Nil when admitted
Admission(cb) ==
    IF cb.state = StateOpen THEN ErrOpenState
    ELSE IF cb.state = StateHalfOpen
            /\ cb.counts.Requests >= cfg.RequestThreshold
    THEN ErrTooManyRequests
    ELSE Nil
\* a return that drops the action's result when it reports a failure
ExecuteReturn_dropsResult(result, err) ==
    [kind |-> "returned", res |-> IF err # Nil THEN Nil ELSE result,
     err |-> err]

\* Execute, line 154: return result, err
ExecuteReturn(result, err) ==
    [kind |-> "returned", res |-> result, err |-> err]

\* Execute, lines 140 and 142: return nil, Err...
ExecuteReject(err) ==
    [kind |-> "rejected", res |-> Nil, err |-> err]

NoReturn == [kind |-> "none", res |-> Nil, err |-> Nil]
Panicked == [kind |-> "panicked", res |-> Nil, err |-> Nil]

\* again tells a rejected call from the identical rejected call before it
Event(op, cb, act, r) ==
    [op |-> op, obs |-> cb.obs, trip |-> cb.trip, act |-> act, ret |-> r,
     again |-> FALSE]

NoHooks == [obs |-> <<>>, trip |-> <<>>]

\* ------------------------------------------------------------------ Init
\* Calls admitted per counting period: enough for the default policy to see
\* five failures, a success and six more failures; fewer under a caller's
\* predicate, which may trip or not at any count.
RequestCap ==
    IF cfg.ReadyToTrip = "defaultReadyToTrip" THEN MaxRequests
    ELSE MaxCustomRequests

Configs ==
    [Name : {"cb"},
     RequestThreshold : 0..MaxThreshold,
     Timeout : {0, 1},
     ReadyToTrip : {Nil, "custom"},
     OnStateChange : {Nil, "observer"}]

Init ==
    /\ cfg \in {NewCircuitBreaker(c) : c \in Configs}
    /\ state = StateClosed
    /\ counts = ZeroCounts
    /\ expiredAt = ZeroTime
    /\ now = 1
    /\ mu = NoOne
    /\ pc = [p \in Callers |-> "idle"]
    /\ ev = Event("new", NoHooks, Nil, NoReturn)
    /\ panics = 0
    /\ probes = 0

\* an Execute that does not take the lock before it reads the state
Enter_noLock(p) ==
    /\ pc[p] = "idle"
    /\ LET cb0 == Breaker(state, counts, expiredAt)
           cb1 == DeadlineCheck(cb0, now)
           rej == Admission(cb1)
           cb2 == IF rej = Nil
                  THEN [cb1 EXCEPT !.counts = Counts_onRequest(@)]
                  ELSE cb1
       IN  /\ rej = Nil => cb1.counts.Requests < RequestCap
           /\ state' = cb2.state
           /\ counts' = cb2.counts
           /\ expiredAt' = cb2.expiredAt
           /\ panics' = IF cb1.state # state THEN 0 ELSE panics
           /\ probes' = IF cb2.state # StateHalfOpen THEN 0
                        ELSE (IF cb1.state # state THEN 0 ELSE probes)
                             + (IF rej = Nil THEN 1 ELSE 0)
           /\ IF rej = Nil
              THEN /\ mu' = p
                   /\ pc' = [pc EXCEPT ![p] = "running"]
                   /\ ev' = Event("admit", cb2, Nil, NoReturn)
              ELSE /\ mu' = mu
                   /\ pc' = [pc EXCEPT ![p] = "idle"]
                   /\ ev' = [Event("reject", cb2, Nil, ExecuteReject(rej))
                               EXCEPT !.again = (ev.op = "reject" /\ ~ev.again)]
    /\ UNCHANGED <<cfg, now>>

\* --------------------------------------------------------------- actions
\* p calls cb.Execute(req), gets the lock and runs Execute up to the call
\* of req(), or to the return of a rejection (the deferred Unlock included)
Enter(p) ==
    /\ pc[p] = "idle"
    /\ mu = NoOne
    /\ LET cb0 == Breaker(state, counts, expiredAt)
           cb1 == DeadlineCheck(cb0, now)
           rej == Admission(cb1)
           cb2 == IF rej = Nil
                  THEN [cb1 EXCEPT !.counts = Counts_onRequest(@)]
                  ELSE cb1
       IN  /\ rej = Nil => cb1.counts.Requests < RequestCap
           /\ state' = cb2.state
           /\ counts' = cb2.counts
           /\ expiredAt' = cb2.expiredAt
           /\ panics' = IF cb1.state # state THEN 0 ELSE panics
           /\ probes' = IF cb2.state # StateHalfOpen THEN 0
                        ELSE (IF cb1.state # state THEN 0 ELSE probes)
                             + (IF rej = Nil THEN 1 ELSE 0)
           /\ IF rej = Nil
              THEN /\ mu' = p
                   /\ pc' = [pc EXCEPT ![p] = "running"]
                   /\ ev' = Event("admit", cb2, Nil, NoReturn)
              ELSE /\ mu' = NoOne
                   /\ pc' = [pc EXCEPT ![p] = "idle"]
                   /\ ev' = [Event("reject", cb2, Nil, ExecuteReject(rej))
                               EXCEPT !.again = (ev.op = "reject" /\ ~ev.again)]
    /\ UNCHANGED <<cfg, now>>

\* req() returns (result, err): outcome update, unlock, return
Return(p, result, err, oracle) ==
    /\ pc[p] = "running"
    /\ mu = p
    /\ (state = StateClosed /\ err = Nil) => counts.TotalSuccesses < MaxSuccesses
    /\ LET cb0 == Breaker(state, counts, expiredAt)
           cb1 == IF err # Nil
                  THEN onFailure(cb0, cb0.state, now, oracle)
                  ELSE onSuccess(cb0, cb0.state)
       IN  /\ state' = cb1.state
           /\ counts' = cb1.counts
           /\ expiredAt' = cb1.expiredAt
           /\ panics' = IF cb1.state # state THEN 0 ELSE panics
           /\ probes' = IF cb1.state # state THEN 0 ELSE probes
           /\ ev' = Event("return", cb1, [res |-> result, err |-> err],
                          ExecuteReturn(result, err))
    /\ mu' = NoOne
    /\ pc' = [pc EXCEPT ![p] = "idle"]
    /\ UNCHANGED <<cfg, now>>

\* a panic that leaves without unlocking
Panic_keepsLock(p) ==
    /\ pc[p] = "running"
    /\ mu = p
    /\ panics < MaxPanics
    /\ mu' = mu
    /\ pc' = [pc EXCEPT ![p] = "idle"]
    /\ panics' = panics + 1
    /\ ev' = Event("panic", NoHooks, Nil, Panicked)
    /\ UNCHANGED <<cfg, state, counts, expiredAt, now, probes>>

\* req() panics: no outcome is recorded, the deferred Unlock runs and the
\* panic propagates to p
Panic(p) ==
    /\ pc[p] = "running"
    /\ mu = p
    /\ panics < MaxPanics
    /\ mu' = NoOne
    /\ pc' = [pc EXCEPT ![p] = "idle"]
    /\ panics' = panics + 1
    /\ ev' = Event("panic", NoHooks, Nil, Panicked)
    /\ UNCHANGED <<cfg, state, counts, expiredAt, now, probes>>

\* a clock with a background timer that moves the guard when it fires
Tick_firesTimer(d) ==
    /\ d = 1 => now % defaultTimeout <= MaxUnitTicks
    /\ d = defaultTimeout => now \div defaultTimeout < MaxPeriodTicks
    /\ now' = now + d
    /\ ev' = Event("tick", NoHooks, Nil, NoReturn)
    /\ IF state = StateOpen /\ mu = NoOne /\ expiredAt < now + d
       THEN state' = StateHalfOpen /\ expiredAt' = ZeroTime
       ELSE UNCHANGED <<state, expiredAt>>
    /\ UNCHANGED <<cfg, counts, mu, pc, panics, probes>>

\* the clock advances by one second or by a whole default timeout
Tick(d) ==
    /\ d = 1 => now % defaultTimeout <= MaxUnitTicks
    /\ d = defaultTimeout => now \div defaultTimeout < MaxPeriodTicks
    /\ now' = now + d
    /\ ev' = Event("tick", NoHooks, Nil, NoReturn)
    /\ UNCHANGED <<cfg, state, counts, expiredAt, mu, pc, panics, probes>>

Next ==
    \/ \E p \in Callers : Enter(p)
    \/ \E p \in Callers, r \in Results, e \in ActionErrors, o \in BOOLEAN :
           Return(p, r, e, o)
    \/ \E p \in Callers : Panic(p)
    \/ \E d \in {1, defaultTimeout} : Tick(d)

Spec == Init /\ [][Next]_vars

\* Callers that keep calling, and actions that return when they can succeed:
\* a call that can pass the Lock does, a running action that can return
\* without an error does.
LiveSpec ==
    /\ Init
    /\ [][Next]_vars
    /\ WF_vars(\E p \in Callers : Enter(p))
    /\ WF_vars(\E p \in Callers, r \in Results : Return(p, r, Nil, TRUE))

TypeOK ==
    /\ state \in {StateClosed, StateOpen, StateHalfOpen}
    /\ mu \in Callers \cup {NoOne}
    /\ pc \in [Callers -> {"idle", "running"}]
    /\ now \in Nat /\ expiredAt \in Nat

\* ------------------------------------------------------- step predicates
\* the step is an Execute call of p passing the Lock: admitted or rejected
Entering(p) ==
    /\ pc[p] = "idle"
    /\ \/ ev'.op = "admit" /\ pc'[p] = "running"
       \/ ev'.op = "reject" /\ mu = NoOne

\* the step is the return of an admitted action (with a failure / cleanly)
Returning == mu # NoOne /\ ev'.op = "return"
Failing == Returning /\ ev'.act.err # Nil
Succeeding == Returning /\ ev'.act.err = Nil

GuardErrors == {ErrOpenState, ErrTooManyRequests}

\* ---------------------------------------------------------------- claims

\* C1: every Execute call either is rejected by the guard (ErrOpenState or
\* ErrTooManyRequests, nil result, action never invoked) or invokes the
\* action exactly once and returns the action's (result, error) pair
\* unchanged; a guard error comes back iff the action was not invoked.
\* A caller is "running" exactly while its one invocation of req() lasts; an
\* action that panics returns nothing.
C1_RejectOrPassThrough ==
    [][\A p \in Callers :
        /\ Entering(p) =>
             IF ev'.op = "reject"
             THEN /\ pc'[p] = "idle"
                  /\ ev'.ret.kind = "rejected"
                  /\ ev'.ret.res = Nil
                  /\ ev'.ret.err \in GuardErrors
                  /\ ev'.act = Nil
             ELSE /\ pc'[p] = "running"
                  /\ ev'.ret.kind = "none"
        /\ (pc[p] = "idle" /\ pc'[p] = "running") => ev'.op = "admit"
        /\ pc[p] = "running" =>
             \/ pc'[p] = "running" /\ ev'.op \notin {"return", "panic"}
             \/ /\ pc'[p] = "idle"
                /\ ev'.op = "return"
                /\ ev'.ret.kind = "returned"
                /\ ev'.ret.res = ev'.act.res
                /\ ev'.ret.err = ev'.act.err
                /\ ev'.ret.err \notin GuardErrors
             \/ /\ pc'[p] = "idle"
                /\ ev'.op = "panic"
                /\ ev'.ret.kind = "panicked"]_vars

\* a failing action that also produced a result tripped the guard, and the
\* caller got both back
C1_Witness ==
    /\ ev.op = "return"
    /\ ev.act = [res |-> "msg", err |-> "service error"]
    /\ ev.ret.res = "msg"
    /\ state = StateOpen

\* C2: an Execute call arriving while the state is Open and the clock is
\* before the cooldown deadline returns ErrOpenState, does not invoke the
\* action and leaves state, counters and deadline as they were.
C2_OpenRejects ==
    [][\A p \in Callers :
        (Entering(p) /\ state = StateOpen /\ now < expiredAt) =>
            /\ pc'[p] = "idle"
            /\ ev'.op = "reject"
            /\ ev'.ret = [kind |-> "rejected", res |-> Nil, err |-> ErrOpenState]
            /\ ev'.act = Nil
            /\ UNCHANGED <<state, counts, expiredAt>>]_vars

C2_Witness ==
    /\ ev.op = "reject"
    /\ ev.ret.err = ErrOpenState
    /\ state = StateOpen
    /\ now < expiredAt
    /\ counts = ZeroCounts

\* C3: readyToTrip is evaluated exactly when an admitted action fails in
\* Closed, once, on the counters with that failure already recorded; the
\* guard goes Closed -> Open with deadline now + timeout iff it answers
\* true; a success in Closed leaves the state Closed.
RecordedFailure(c) ==
    [Requests |-> c.Requests,
     TotalSuccesses |-> c.TotalSuccesses,
     TotalFailures |-> c.TotalFailures + 1,
     ConsecutiveSuccesses |-> 0,
     ConsecutiveFailures |-> c.ConsecutiveFailures + 1]

C3_TripPredicate ==
    [][/\ Len(ev'.trip) = IF Failing /\ state = StateClosed THEN 1 ELSE 0
       /\ (Failing /\ state = StateClosed) =>
            /\ ev'.trip[1].arg = RecordedFailure(counts)
            /\ ev'.trip[1].arg.Requests >= 1
            /\ IF ev'.trip[1].ret
               THEN state' = StateOpen /\ expiredAt' = now + cfg.Timeout
               ELSE state' = StateClosed /\ expiredAt' = expiredAt
       /\ (state = StateClosed /\ state' # StateClosed) =>
            Failing /\ state' = StateOpen
       /\ (Succeeding /\ state = StateClosed) => state' = StateClosed]_vars

\* a caller's predicate said true on the third failure after one success
C3_Witness ==
    /\ ev.op = "return"
    /\ cfg.ReadyToTrip = "custom"
    /\ Len(ev.trip) = 1
    /\ ev.trip[1].ret
    /\ ev.trip[1].arg.TotalSuccesses = 1
    /\ ev.trip[1].arg.ConsecutiveFailures = 3
    /\ state = StateOpen
    /\ expiredAt = now + cfg.Timeout

\* C4: with the default policy a Closed guard stays Closed through up to 5
\* consecutive failures, a success restarts the streak, and the 6th
\* consecutive failure opens it: 5 failures give {5,0,5,0,5}, a success
\* then {6,1,5,1,0}, 6 more failures leave it Open with zero counters and a
\* deadline.
CountsOf(r, ts, tf, cs, cf) ==
    [Requests |-> r, TotalSuccesses |-> ts, TotalFailures |-> tf,
     ConsecutiveSuccesses |-> cs, ConsecutiveFailures |-> cf]

C4_DefaultPolicy ==
    /\ [](cfg.ReadyToTrip = "defaultReadyToTrip" /\ state = StateClosed
            => counts.ConsecutiveFailures <= 5)
    /\ [][cfg.ReadyToTrip = "defaultReadyToTrip" /\ state = StateClosed =>
            /\ Failing =>
                 IF counts.ConsecutiveFailures + 1 = 6
                 THEN /\ state' = StateOpen
                      /\ counts' = ZeroCounts
                      /\ expiredAt' # ZeroTime
                 ELSE /\ state' = StateClosed
                      /\ counts'.ConsecutiveFailures
                           = counts.ConsecutiveFailures + 1
            /\ Succeeding =>
                 state' = StateClosed /\ counts'.ConsecutiveFailures = 0
            /\ (Failing /\ counts = CountsOf(5, 0, 4, 0, 4))
                 => counts' = CountsOf(5, 0, 5, 0, 5)
            /\ (Succeeding /\ counts = CountsOf(6, 0, 5, 0, 5))
                 => counts' = CountsOf(6, 1, 5, 1, 0)
            /\ (Failing /\ counts = CountsOf(12, 1, 10, 0, 5))
                 => /\ state' = StateOpen
                    /\ counts' = ZeroCounts
                    /\ expiredAt' = now + cfg.Timeout]_vars

\* the end of the example: the default predicate saw {12,1,11,0,6}, which
\* only 5 failures, a success and 6 failures produce, and the guard is Open
C4_Witness ==
    /\ cfg.ReadyToTrip = "defaultReadyToTrip"
    /\ ev.op = "return"
    /\ Len(ev.trip) = 1
    /\ ev.trip[1].arg = CountsOf(12, 1, 11, 0, 6)
    /\ state = StateOpen
    /\ counts = ZeroCounts
    /\ expiredAt # ZeroTime

\* C5 as stated: an Execute call arriving in Open at a clock reading
\* t >= cooldownDeadline clears the deadline, goes to HalfOpen and is not
\* rejected with ErrOpenState.
C5_AtOrAfterDeadline ==
    [][\A p \in Callers :
        (Entering(p) /\ state = StateOpen /\ now >= expiredAt) =>
            /\ ev'.ret.err # ErrOpenState
            /\ state' = StateHalfOpen
            /\ expiredAt' = ZeroTime]_vars

\* C5 as amended: the same for t > cooldownDeadline only; at
\* t <= cooldownDeadline the call is rejected with ErrOpenState, and
\* ErrOpenState is returned in no other case. The admitted call is judged by
\* the HalfOpen rule on the freshly reset counters.
C5_AfterDeadline ==
    [][\A p \in Callers :
        /\ (Entering(p) /\ state = StateOpen /\ now > expiredAt) =>
            /\ ev'.ret.err # ErrOpenState
            /\ state' = StateHalfOpen
            /\ expiredAt' = ZeroTime
            /\ IF cfg.RequestThreshold = 0
               THEN /\ ev'.ret = [kind |-> "rejected", res |-> Nil,
                                  err |-> ErrTooManyRequests]
                    /\ counts' = ZeroCounts
               ELSE /\ ev'.op = "admit"
                    /\ counts' = CountsOf(1, 0, 0, 0, 0)
        /\ (Entering(p) /\ state = StateOpen /\ now <= expiredAt) =>
            /\ ev'.ret.err = ErrOpenState
            /\ UNCHANGED <<state, counts, expiredAt>>
        /\ (Entering(p) /\ ev'.ret.err = ErrOpenState) =>
            state = StateOpen /\ now <= expiredAt]_vars

\* the first call after the deadline was admitted as a probe
C5_Witness ==
    /\ ev.op = "admit"
    /\ state = StateHalfOpen
    /\ counts = CountsOf(1, 0, 0, 0, 0)
    /\ expiredAt = ZeroTime
    /\ now > cfg.Timeout

\* C6: a failure of an admitted action in HalfOpen opens the guard at once,
\* with deadline now + timeout and zero counters, whatever successes came
\* before, and readyToTrip is not asked.
C6_HalfOpenFailure ==
    [][(Failing /\ state = StateHalfOpen) =>
            /\ state' = StateOpen
            /\ expiredAt' = now + cfg.Timeout
            /\ counts' = ZeroCounts
            /\ Len(ev'.trip) = 0]_vars

\* a probe failed (no predicate call, a failure, and the guard is Open)
\* although the default policy would have needed six failures
C6_Witness ==
    /\ cfg.ReadyToTrip = "defaultReadyToTrip"
    /\ cfg.RequestThreshold = 2
    /\ ev.op = "return"
    /\ ev.act.err # Nil
    /\ Len(ev.trip) = 0
    /\ state = StateOpen
    /\ counts = ZeroCounts
    /\ expiredAt = now + cfg.Timeout

\* the number of admitted actions that are running now (0 or 1)
InFlight == Cardinality({p \in Callers : pc[p] = "running"})

C8_ProbeCap ==
    /\ [](state = StateHalfOpen => probes <= cfg.RequestThreshold)
    /\ [](state # StateHalfOpen => probes = 0)
    /\ [][\A p \in Callers :
            (Entering(p) /\ state = StateHalfOpen
               /\ counts.Requests >= cfg.RequestThreshold) =>
                /\ ev'.ret = [kind |-> "rejected", res |-> Nil,
                              err |-> ErrTooManyRequests]
                /\ ev'.act = Nil
                /\ pc' = pc
                /\ UNCHANGED <<state, counts, expiredAt, probes>>]_vars

\* with a threshold of 2, two probes were invoked and the third call was
\* turned away
C8_Witness ==
    /\ cfg.RequestThreshold = 2
    /\ state = StateHalfOpen
    /\ probes = 2
    /\ counts.Requests = 2
    /\ ev.op = "reject"
    /\ ev.ret.err = ErrTooManyRequests

\* C9: with requestThreshold = 0 the guard never leaves HalfOpen once it is
\* there: the call that makes Open -> HalfOpen and every later call get
\* ErrTooManyRequests, no action is invoked, the state stays HalfOpen.
C9_ZeroThresholdLockout ==
    [][cfg.RequestThreshold = 0 =>
        /\ state = StateHalfOpen =>
             /\ state' = StateHalfOpen
             /\ mu = NoOne /\ mu' = NoOne
             /\ \A p \in Callers : pc'[p] = "idle"
             /\ ev'.op \in {"reject", "tick"}
        /\ \A p \in Callers :
             (Entering(p) /\ state' = StateHalfOpen) =>
                 /\ ev'.op = "reject"
                 /\ ev'.ret = [kind |-> "rejected", res |-> Nil,
                               err |-> ErrTooManyRequests]
                 /\ probes' = 0]_vars

\* a call found the guard locked out in HalfOpen, long after the deadline
C9_Witness ==
    /\ cfg.RequestThreshold = 0
    /\ state = StateHalfOpen
    /\ ev.op = "reject"
    /\ ev.ret.err = ErrTooManyRequests
    /\ now > defaultTimeout
    /\ cfg.Timeout = 1

\* C10 as stated: in every reachable state
\* totalSuccesses + totalFailures == requests.
C10_OutcomesEqualRequests ==
    counts.TotalSuccesses + counts.TotalFailures = counts.Requests

\* C10 as amended: requests == totalSuccesses + totalFailures + the admitted
\* action now running (0 or 1) + the admitted actions that panicked since
\* the counters were last reset.
C10_OutcomesPlusPending ==
    counts.Requests
        = counts.TotalSuccesses + counts.TotalFailures + InFlight + panics

\* an action is running after an earlier one failed and another panicked
C10_Witness ==
    /\ InFlight = 1
    /\ panics = 1
    /\ counts.TotalFailures = 1
    /\ counts.Requests = 3

\* C11: every actual transition leaves the five counters at zero right
\* after it (an admitted call then counts its own request) and invokes the
\* configured observer exactly once with (name, previous, new); a call that
\* does not change the state invokes no observer and resets nothing;
\* setting the state to its current value is a no-op.
C11_TransitionEffects ==
    /\ [](setState(Breaker(state, counts, expiredAt), state)
            = Breaker(state, counts, expiredAt))
    /\ [][/\ state' # state =>
               /\ counts' = IF ev'.op = "admit" THEN CountsOf(1, 0, 0, 0, 0)
                            ELSE ZeroCounts
               /\ ev'.op \in {"admit", "reject", "return"}
               /\ IF cfg.OnStateChange # Nil
                  THEN /\ Len(ev'.obs) = 1
                       /\ ev'.obs[1].name = cfg.Name
                       /\ ev'.obs[1].from = state
                       /\ ev'.obs[1].to = state'
                  ELSE Len(ev'.obs) = 0
          /\ state' = state =>
               /\ Len(ev'.obs) = 0
               /\ counts'.Requests >= counts.Requests
               /\ counts'.TotalSuccesses >= counts.TotalSuccesses
               /\ counts'.TotalFailures >= counts.TotalFailures
               /\ counts' = ZeroCounts => counts = ZeroCounts
          /\ (state' = state /\ ev'.op = "reject") => counts' = counts]_vars

\* the observer was told of HalfOpen -> Closed and the counters are zero
C11_Witness ==
    /\ cfg.OnStateChange # Nil
    /\ ev.op = "return"
    /\ Len(ev.obs) = 1
    /\ ev.obs[1].from = StateHalfOpen
    /\ ev.obs[1].to = StateClosed
    /\ state = StateClosed
    /\ counts = ZeroCounts

\* C12: while no Execute call is in progress the deadline is set iff the
\* state is Open: empty on a fresh guard and in Closed and HalfOpen, set to
\* now + timeout on every transition into Open, cleared on Open -> HalfOpen.
C12_DeadlineIffOpen ==
    /\ (expiredAt = ZeroTime /\ state = StateClosed)
    /\ [](mu = NoOne => (expiredAt # ZeroTime <=> state = StateOpen))
    /\ [][/\ (state # StateOpen /\ state' = StateOpen)
               => expiredAt' = now + cfg.Timeout
          /\ (state = StateOpen /\ state' # StateOpen)
               => state' = StateHalfOpen /\ expiredAt' = ZeroTime
          /\ (state = StateOpen /\ state' = StateOpen)
               => expiredAt' = expiredAt]_vars

\* the guard has just tripped from Closed and carries its deadline
C12_Witness ==
    /\ mu = NoOne
    /\ state = StateOpen
    /\ ev.op = "return"
    /\ Len(ev.trip) = 1
    /\ expiredAt = now + cfg.Timeout
    /\ expiredAt # ZeroTime

\* C13: at most one Execute call is in flight: the lock is held from before
\* the deadline check until the outcome is recorded, the action included, so
\* no two actions run together and no other call reads or changes state,
\* counters or deadline meanwhile; the calls happen in some sequential order.
C13_Serialised ==
    /\ [](/\ InFlight <= 1
          /\ \A p \in Callers : pc[p] = "running" <=> mu = p)
    /\ [][mu # NoOne =>
            /\ ev'.op \in {"return", "panic", "tick"}
            /\ \A q \in Callers \ {mu} : pc'[q] = "idle"
            /\ IF ev'.op = "tick"
               THEN UNCHANGED <<state, counts, expiredAt, mu, pc>>
               ELSE mu' = NoOne /\ pc'[mu] = "idle"]_vars

\* the second caller's action is running, the clock moves, the first caller
\* has not got in
C13_Witness ==
    /\ mu = 2
    /\ pc[2] = "running"
    /\ pc[1] = "idle"
    /\ InFlight = 1
    /\ ev.op = "tick"
    /\ counts.Requests = 2

\* the step is an admitted action panicking
Panicking == mu # NoOne /\ ev'.op = "panic"

\* C14: for requestThreshold >= 1, if the guard is Open or HalfOpen and from
\* some point on the clock keeps advancing (it passes every deadline),
\* callers keep calling and every admitted action succeeds, the guard
\* eventually reaches Closed.
C14_Recovers ==
    (/\ cfg.RequestThreshold >= 1
     /\ <>[][~Failing /\ ~Panicking]_vars
     /\ []<>(state # StateOpen \/ now > expiredAt))
        => ((state \in {StateOpen, StateHalfOpen}) ~> (state = StateClosed))

\* C15: the passage of time alone changes nothing: state, counters and
\* deadline change only inside an Execute call; an Open guard that gets no
\* call stays Open with the same deadline and counters however far the
\* clock runs past the deadline.
C15_TimeAloneChangesNothing ==
    [][/\ ev'.op = "tick" =>
            /\ now' > now
            /\ UNCHANGED <<state, counts, expiredAt>>
       /\ <<state, counts, expiredAt>>' # <<state, counts, expiredAt>>
            => ev'.op \in {"admit", "reject", "return"}]_vars

\* more than another timeout after the deadline the guard is still Open
C15_Witness ==
    /\ ev.op = "tick"
    /\ state = StateOpen
    /\ now > expiredAt + cfg.Timeout
    /\ counts = ZeroCounts

\* C16: whenever the observer is invoked the guard's state already equals
\* the 'to' argument, 'from' is the state held just before, and from # to.
C16_ObserverSeesNewState ==
    [][\A i \in DOMAIN ev'.obs :
        /\ ev'.obs[i].seenState = ev'.obs[i].to
        /\ ev'.obs[i].from = state
        /\ ev'.obs[i].to = state'
        /\ ev'.obs[i].from # ev'.obs[i].to]_vars

\* the observer was told Open -> HalfOpen by the call that is now admitted
C16_Witness ==
    /\ ev.op = "admit"
    /\ Len(ev.obs) = 1
    /\ ev.obs[1].from = StateOpen
    /\ ev.obs[1].to = StateHalfOpen
    /\ ev.obs[1].seenState = StateHalfOpen
    /\ state = StateHalfOpen

\* C17 as stated: the counters are reset first and the observer is invoked
\* second: when the observer runs all five counters are already zero.
C17_ResetBeforeObserver ==
    \A i \in DOMAIN ev.obs : ev.obs[i].seenCounts = ZeroCounts

RecordedSuccess(c) ==
    [Requests |-> c.Requests,
     TotalSuccesses |-> c.TotalSuccesses + 1,
     TotalFailures |-> c.TotalFailures,
     ConsecutiveSuccesses |-> c.ConsecutiveSuccesses + 1,
     ConsecutiveFailures |-> 0]

\* C17 as amended: the observer is invoked first (after the state is
\* committed) and the counters are reset second: when the observer runs the
\* counters still hold the values of the period that ends, with the current
\* call counted (requests >= 1) on a transition made by an outcome, and zero
\* only on Open -> HalfOpen, where they were zero before; after the call
\* they are reset.
C17_ObserverBeforeReset ==
    [][\A i \in DOMAIN ev'.obs :
        /\ ev'.obs[i].seenCounts =
             IF ev'.op \in {"admit", "reject"} THEN counts
             ELSE IF state = StateClosed THEN RecordedFailure(counts)
             ELSE IF ev'.act.err # Nil THEN counts
             ELSE RecordedSuccess(counts)
        /\ ev'.op = "return" => ev'.obs[i].seenCounts.Requests >= 1
        /\ ev'.op \in {"admit", "reject"} =>
             ev'.obs[i].seenCounts = ZeroCounts
        /\ counts' = IF ev'.op = "admit" THEN CountsOf(1, 0, 0, 0, 0)
                     ELSE ZeroCounts]_vars

\* the observer ran on Closed -> Open while the counters still showed the
\* failures that tripped the guard
C17_Witness ==
    /\ ev.op = "return"
    /\ Len(ev.obs) = 1
    /\ ev.obs[1].from = StateClosed
    /\ ev.obs[1].to = StateOpen
    /\ ev.obs[1].seenCounts = CountsOf(6, 0, 6, 0, 6)
    /\ counts = ZeroCounts

\* C18: the only state changes are Closed -> Open, Open -> HalfOpen,
\* HalfOpen -> Closed and HalfOpen -> Open; a fresh guard is Closed and the
\* state is always one of the three values.
LegalTransitions ==
    {<<StateClosed, StateOpen>>, <<StateOpen, StateHalfOpen>>,
     <<StateHalfOpen, StateClosed>>, <<StateHalfOpen, StateOpen>>}

C18_OnlyFourTransitions ==
    /\ state = StateClosed
    /\ [](state \in {StateClosed, StateOpen, StateHalfOpen})
    /\ [][state' # state => <<state, state'>> \in LegalTransitions]_vars

\* a failed probe sent the guard from HalfOpen back to Open
C18_Witness ==
    /\ Len(ev.obs) = 1
    /\ ev.obs[1].from = StateHalfOpen
    /\ ev.obs[1].to = StateOpen
    /\ state = StateOpen
    /\ cfg.ReadyToTrip = "custom"

\* C19: for requestThreshold >= 1, as long as admitted actions return (no
\* panic in this counting period), the probe cap is never hit: with no call
\* in progress in HalfOpen, requests == totalSuccesses ==
\* consecutiveSuccesses < requestThreshold and totalFailures ==
\* consecutiveFailures == 0, and Execute does not return ErrTooManyRequests.
C19_CapNotHit ==
    /\ []((cfg.RequestThreshold >= 1 /\ panics = 0 /\ mu = NoOne
             /\ state = StateHalfOpen) =>
            /\ counts.Requests = counts.TotalSuccesses
            /\ counts.TotalSuccesses = counts.ConsecutiveSuccesses
            /\ counts.ConsecutiveSuccesses < cfg.RequestThreshold
            /\ counts.TotalFailures = 0
            /\ counts.ConsecutiveFailures = 0)
    /\ []((cfg.RequestThreshold >= 1 /\ panics = 0)
            => ev.ret.err # ErrTooManyRequests)

\* between two probes of a threshold-2 guard, nothing pending
C19_Witness ==
    /\ cfg.RequestThreshold = 2
    /\ state = StateHalfOpen
    /\ mu = NoOne
    /\ panics = 0
    /\ ev.op = "return"
    /\ counts = CountsOf(1, 1, 0, 1, 0)

\* C20: Execute releases the lock on every exit path (rejection, return,
\* panic of the action); a panicking action counts as neither success nor
\* failure: state and deadline unchanged, requests stays incremented, no
\* success or failure counter changes.
C20_UnlockOnEveryExit ==
    /\ [](ev.op \in {"new", "reject", "return", "panic"} => mu = NoOne)
    /\ [][/\ ev'.op \in {"reject", "return", "panic"}
               => mu' = NoOne /\ \A p \in Callers : pc'[p] = "idle"
          /\ Panicking =>
               /\ UNCHANGED <<state, counts, expiredAt>>
               /\ counts'.Requests
                    >= counts'.TotalSuccesses + counts'.TotalFailures + 1]_vars

\* a probe panicked: the lock is free, the request stays counted without
\* an outcome
C20_Witness ==
    /\ ev.op = "panic"
    /\ mu = NoOne
    /\ state = StateHalfOpen
    /\ counts = CountsOf(1, 0, 0, 0, 0)
    /\ panics = 1

====
